---- MODULE Spec2Model ----
(***************************************************************************)
(* Model of examples/backend/main.py: a FastAPI application over an        *)
(* in-memory list of users (users_db), with the handlers root, get_users,  *)
(* get_user, create_user, and the helpers find_user_by_id and              *)
(* calculate_user_score.                                                   *)
(*                                                                         *)
(* Text values (Python str) are sequences of one-character strings, so     *)
(* that len() and the "in" test are computed, not assumed.                 *)
(***************************************************************************)
EXTENDS Integers, Sequences, FiniteSets, TLC

VARIABLES users_db, pc, req, new_id, new_user, log, score

vars == <<users_db, pc, req, new_id, new_user, log, score>>

(***************************************************************************)
(* Bounds of the model.                                                    *)
(***************************************************************************)
\* number of HTTP exchanges (received requests) in one behaviour
MaxRequests == 4
\* number of connections whose requests may be in flight at the same time
MaxInFlight == 2

Conns == 1..MaxInFlight

(***************************************************************************)
(* Text literals.                                                          *)
(***************************************************************************)
JohnDoe == <<"J","o","h","n"," ","D","o","e">>
JohnEmail == <<"j","o","h","n","@","e","x","a","m","p","l","e",".","c","o","m">>
JaneSmith == <<"J","a","n","e"," ","S","m","i","t","h">>
JaneEmail == <<"j","a","n","e","@","e","x","a","m","p","l","e",".","c","o","m">>
Ann == <<"A","n","n">>
AnnEmail == <<"a","n","n","@","e","x","a","m","p","l","e",".","c","o","m">>
Bo == <<"B","o">>
BoEmail == <<"b","o">>

(***************************************************************************)
(* class User(BaseModel): id, name, email, is_active = True                *)
(***************************************************************************)
\* a faulty variant: the default of is_active taken as False
User_Inactive(id, name, email) ==
    [id |-> id, name |-> name, email |-> email, is_active |-> FALSE]

User(id, name, email) ==
    [id |-> id, name |-> name, email |-> email, is_active |-> TRUE]

\* Python's None
None == [py |-> "None"]

\* users_db as the module defines it
SeedUsers ==
    << User(1, JohnDoe, JohnEmail), User(2, JaneSmith, JaneEmail) >>

(***************************************************************************)
(* JSON values of a request body, as far as UserCreate distinguishes them. *)
(***************************************************************************)
JStr(s) == [type |-> "string", value |-> s]
JNull == [type |-> "null", value |-> <<>>]
JArray == [type |-> "array", value |-> <<>>]
JAbsent == [type |-> "absent", value |-> <<>>]

\* a faulty variant: email not required
UserCreate_NameOnly(body) == body.name.type = "string"

\* class UserCreate(BaseModel): name: str, email: str  (both required)
UserCreate(body) ==
    /\ body.name.type = "string"
    /\ body.email.type = "string"

\* user_data.dict()
UserCreateDict(body) == [name |-> body.name.value, email |-> body.email.value]

(***************************************************************************)
(* The requests a client sends.                                            *)
(***************************************************************************)
GetIds == {1, 3, 99}

WellFormedBodies ==
    { [name |-> JStr(Ann), email |-> JStr(AnnEmail)],
      [name |-> JStr(Bo), email |-> JStr(BoEmail)] }

MalformedBodies ==
    { [name |-> JAbsent, email |-> JStr(AnnEmail)],
      [name |-> JStr(Ann), email |-> JAbsent],
      [name |-> JStr(Ann), email |-> JArray],
      [name |-> JNull, email |-> JStr(AnnEmail)] }

NoBody == [name |-> JAbsent, email |-> JAbsent]

Request(op, user_id, body) == [op |-> op, user_id |-> user_id, body |-> body]

CreateRequests ==
    { Request("create_user", 0, b) : b \in WellFormedBodies \cup MalformedBodies }

Requests ==
    { Request("root", 0, NoBody), Request("get_users", 0, NoBody) }
    \cup { Request("get_user", i, NoBody) : i \in GetIds }
    \cup CreateRequests

NoRequest == Request("none", 0, NoBody)

(***************************************************************************)
(* Responses.                                                              *)
(***************************************************************************)
Response(status, body) == [status |-> status, body |-> body]

HTTP_OK == 200
HTTP_NOT_FOUND == 404
HTTP_UNPROCESSABLE == 422

(***************************************************************************)
(* find_user_by_id: the first record of users_db with the id, or None.     *)
(***************************************************************************)
RECURSIVE FindFrom(_, _, _)
FindFrom(db, user_id, i) ==
    IF i > Len(db) THEN None
    ELSE IF db[i].id = user_id THEN db[i]
    ELSE FindFrom(db, user_id, i + 1)

\* a faulty variant: the scan misses the first record
find_user_by_id_SkipFirst(db, user_id) == FindFrom(db, user_id, 2)

find_user_by_id(db, user_id) == FindFrom(db, user_id, 1)

(***************************************************************************)
(* max([u.id for u in users_db], default=0)                                *)
(***************************************************************************)
IdList(db) == [i \in 1..Len(db) |-> db[i].id]

RECURSIVE MaxFrom(_, _, _)
MaxFrom(s, i, best) ==
    IF i > Len(s) THEN best
    ELSE MaxFrom(s, i + 1, IF s[i] > best THEN s[i] ELSE best)

\* a faulty variant: the first element taken for the largest
PyMax_First(s, default) == IF Len(s) = 0 THEN default ELSE s[1]

PyMax(s, default) == IF Len(s) = 0 THEN default ELSE MaxFrom(s, 2, s[1])

\* faulty variants: the increment forgotten; the count taken for the largest id
NewId_NoIncrement(db) == PyMax(IdList(db), 0)

NewId_Count(db) == Len(db) + 1

NewId(db) == PyMax(IdList(db), 0) + 1

(***************************************************************************)
(* The event loop.  Every handler is an "async def" without an await, so   *)
(* a handler that has started runs to its return before the loop starts    *)
(* another one.                                                            *)
(***************************************************************************)
InHandler(r) == pc[r] \in {"create_52", "create_53", "create_54"}

\* a faulty variant: handlers run in threads, any of them may start at any time
LoopFree_Always(r) == TRUE

LoopFree(r) == \A q \in Conns \ {r} : ~InHandler(q)

InFlight == Cardinality({r \in Conns : pc[r] # "idle"})

(***************************************************************************)
(* calculate_user_score                                                    *)
(***************************************************************************)
\* Python's "sub in s" on str: sub occurs in s as a contiguous piece
PyIn(sub, s) ==
    \E i \in 1..(Len(s) - Len(sub) + 1) : SubSeq(s, i, i + Len(sub) - 1) = sub

\* float(n) of an int; exact below 2^53
PyFloat(n) == [type |-> "float", value |-> n]

base_score(user) == Len(user.name) * 10

\* a faulty variant: the bonus granted without the test
email_bonus_Always(user) == 5

email_bonus(user) == IF PyIn(<<"@">>, user.email) THEN 5 ELSE 0

active_bonus(user) == IF user.is_active THEN 20 ELSE 0

calculate_user_score(user) ==
    PyFloat(base_score(user) + email_bonus(user) + active_bonus(user))

(***************************************************************************)
(* Initial state: the module has been imported, no request is in flight.   *)
(***************************************************************************)
NoScore == [user |-> None, result |-> PyFloat(0)]

InitLocals ==
    /\ pc = [r \in Conns |-> "idle"]
    /\ req = [r \in Conns |-> NoRequest]
    /\ new_id = [r \in Conns |-> 0]
    /\ new_user = [r \in Conns |-> None]
    /\ log = <<>>
    /\ score = NoScore

Init ==
    /\ users_db = SeedUsers
    /\ InitLocals

(***************************************************************************)
(* A client sends a request on an idle connection.                         *)
(***************************************************************************)
ReceiveOf(r, requests) ==
    /\ pc[r] = "idle"
    /\ Len(log) + InFlight < MaxRequests
    /\ \E q \in requests : req' = [req EXCEPT ![r] = q]
    /\ pc' = [pc EXCEPT ![r] = "pending"]
    /\ UNCHANGED <<users_db, new_id, new_user, log, score>>

Receive(r) == ReceiveOf(r, Requests)

\* the response is sent; the handler's locals are gone
Reply(r, resp) ==
    /\ log' = Append(log, [req |-> req[r], resp |-> resp])
    /\ pc' = [pc EXCEPT ![r] = "idle"]
    /\ req' = [req EXCEPT ![r] = NoRequest]
    /\ new_id' = [new_id EXCEPT ![r] = 0]
    /\ new_user' = [new_user EXCEPT ![r] = None]

Dispatch(r, op) ==
    /\ pc[r] = "pending"
    /\ req[r].op = op
    /\ LoopFree(r)

(***************************************************************************)
(* @app.get("/")  root                                                     *)
(***************************************************************************)
root(r) ==
    /\ Dispatch(r, "root")
    /\ Reply(r, Response(HTTP_OK, [message |-> "CodeFlow Buddy Backend API"]))
    /\ UNCHANGED <<users_db, score>>

(***************************************************************************)
(* @app.get("/users")  get_users                                           *)
(***************************************************************************)
get_users(r) ==
    /\ Dispatch(r, "get_users")
    /\ Reply(r, Response(HTTP_OK, [list |-> users_db]))
    /\ UNCHANGED <<users_db, score>>

(***************************************************************************)
(* @app.get("/users/{user_id}")  get_user                                  *)
(***************************************************************************)
get_user(r) ==
    /\ Dispatch(r, "get_user")
    /\ LET user == find_user_by_id(users_db, req[r].user_id)
       IN  IF user = None
           THEN Reply(r, Response(HTTP_NOT_FOUND, [detail |-> "User not found"]))
           ELSE Reply(r, Response(HTTP_OK, user))
    /\ UNCHANGED <<users_db, score>>

(***************************************************************************)
(* @app.post("/users")  create_user                                        *)
(***************************************************************************)
\* the body is not a UserCreate: the handler is not called
RequestValidationError(r) ==
    /\ Dispatch(r, "create_user")
    /\ ~UserCreate(req[r].body)
    /\ Reply(r, Response(HTTP_UNPROCESSABLE, [detail |-> "validation error"]))
    /\ UNCHANGED <<users_db, score>>

\* new_id = max([u.id for u in users_db], default=0) + 1
Create_51(r) ==
    /\ Dispatch(r, "create_user")
    /\ UserCreate(req[r].body)
    /\ new_id' = [new_id EXCEPT ![r] = NewId(users_db)]
    /\ pc' = [pc EXCEPT ![r] = "create_52"]
    /\ UNCHANGED <<users_db, req, new_user, log, score>>

\* new_user = User(id=new_id, **user_data.dict())
Create_52(r) ==
    /\ pc[r] = "create_52"
    /\ LET d == UserCreateDict(req[r].body)
       IN  new_user' = [new_user EXCEPT ![r] = User(new_id[r], d.name, d.email)]
    /\ pc' = [pc EXCEPT ![r] = "create_53"]
    /\ UNCHANGED <<users_db, req, new_id, log, score>>

\* faulty variants: the record inserted in front; the record appended twice
AppendUser_Front(db, u) == <<u>> \o db

AppendUser_Twice(db, u) == Append(Append(db, u), u)

\* users_db.append(new_user)
AppendUser(db, u) == Append(db, u)

Create_53(r) ==
    /\ pc[r] = "create_53"
    /\ users_db' = AppendUser(users_db, new_user[r])
    /\ pc' = [pc EXCEPT ![r] = "create_54"]
    /\ UNCHANGED <<req, new_id, new_user, log, score>>

\* return new_user
Create_54(r) ==
    /\ pc[r] = "create_54"
    /\ Reply(r, Response(HTTP_OK, new_user[r]))
    /\ UNCHANGED <<users_db, score>>

Next ==
    \E r \in Conns :
        \/ Receive(r)
        \/ root(r)
        \/ get_users(r)
        \/ get_user(r)
        \/ RequestValidationError(r)
        \/ Create_51(r)
        \/ Create_52(r)
        \/ Create_53(r)
        \/ Create_54(r)

Spec == Init /\ [][Next]_vars

(***************************************************************************)
(* create_user as a function of the directory: the same program started    *)
(* on a short directory with distinct ids, in any order, or on none.       *)
(***************************************************************************)
AnyUser(i) == User(i, JohnDoe, JohnEmail)

AnyDirs ==
    { <<>>,
      << AnyUser(1) >>,
      << AnyUser(5) >>,
      << AnyUser(1), AnyUser(5) >>,
      << AnyUser(5), AnyUser(1) >>,
      << AnyUser(2), AnyUser(5), AnyUser(1) >> }

InitAny ==
    /\ users_db \in AnyDirs
    /\ InitLocals

\* a client sends a POST /users request
ReceiveCreate(r) == ReceiveOf(r, CreateRequests)

NextAny ==
    \E r \in Conns :
        \/ ReceiveCreate(r)
        \/ RequestValidationError(r)
        \/ Create_51(r)
        \/ Create_52(r)
        \/ Create_53(r)
        \/ Create_54(r)

SpecAny == InitAny /\ [][NextAny]_vars

(***************************************************************************)
(* calculate_user_score called locally on a User value.                    *)
(***************************************************************************)
ScoreNames == { <<>>, Bo, Ann, JohnDoe }
ScoreEmails == { <<>>, BoEmail, <<"@">>, JohnEmail }

ScoreUsers ==
    { [id |-> 1, name |-> n, email |-> e, is_active |-> a] :
        n \in ScoreNames, e \in ScoreEmails, a \in BOOLEAN }

CallScore(u) ==
    /\ score' = [user |-> u, result |-> calculate_user_score(u)]
    /\ UNCHANGED <<users_db, pc, req, new_id, new_user, log>>

InitScore ==
    /\ users_db \in AnyDirs \cup {SeedUsers}
    /\ InitLocals

NextScore == \E u \in ScoreUsers : CallScore(u)

SpecScore == InitScore /\ [][NextScore]_vars

(***************************************************************************)
(* What the clients have seen.                                             *)
(***************************************************************************)
IsCreated(e) == e.req.op = "create_user" /\ e.resp.status = HTTP_OK

\* the records returned by create_user among the first k exchanges, in order
CreatedBefore(k) ==
    LET c == SelectSeq(SubSeq(log, 1, k), IsCreated)
    IN  [i \in 1..Len(c) |-> c[i].resp.body]

Created == CreatedBefore(Len(log))

IsPrefix(s, t) == Len(s) <= Len(t) /\ SubSeq(t, 1, Len(s)) = s

\* one greater than the largest id of db, 1 for the empty directory
ExpectedId(db) ==
    IF db = <<>> THEN 1
    ELSE 1 + CHOOSE m \in { db[i].id : i \in 1..Len(db) } :
                 \A j \in 1..Len(db) : db[j].id <= m

\* some connection's handler answers a request of kind op in this step
Answers(r, op) == pc[r] = "pending" /\ req[r].op = op /\ pc'[r] = "idle"

(***************************************************************************)
(* C1: in every state reachable from the two seed records by list, get and *)
(* create requests, the ids of the records of users_db are pairwise        *)
(* distinct.                                                               *)
(***************************************************************************)
C1_IdsDistinct ==
    \A i \in 1..Len(users_db) : \A j \in 1..Len(users_db) :
        i # j => users_db[i].id # users_db[j].id

C1_Witness ==
    /\ Len(users_db) = 4
    /\ \E k \in 1..Len(log) : log[k].req.op = "get_users"
    /\ \E k \in 1..Len(log) : log[k].req.op = "get_user"

(***************************************************************************)
(* C2: create(name, email) on any directory computes new_id as the largest *)
(* id in the directory plus one (1 for the empty directory), builds the    *)
(* record (new_id, name, email, is_active = TRUE), appends it as the last  *)
(* element and returns that record.                                        *)
(***************************************************************************)
C2_Record(db, body) ==
    [id |-> ExpectedId(db), name |-> body.name.value,
     email |-> body.email.value, is_active |-> TRUE]

C2_CreateContract ==
    /\ \A r \in Conns :
          pc[r] = "create_52" => new_id[r] = ExpectedId(users_db)
    /\ \A r \in Conns :
          pc[r] = "create_53" => new_user[r] = C2_Record(users_db, req[r].body)
    /\ \A r \in Conns :
          pc[r] = "create_54" =>
             LET n == Len(users_db)
             IN  /\ n >= 1
                 /\ users_db[n] = C2_Record(SubSeq(users_db, 1, n - 1), req[r].body)
                 /\ new_user[r] = users_db[n]
    /\ \A k \in 1..Len(log) :
          IsCreated(log[k]) =>
             \E i \in 1..Len(users_db) :
                /\ users_db[i] = log[k].resp.body
                /\ users_db[i] = C2_Record(SubSeq(users_db, 1, i - 1), log[k].req.body)

C2_Witness ==
    /\ Len(log) >= 1
    /\ IsCreated(log[1])
    /\ log[1].resp.body = User(1, Ann, AnnEmail)
    /\ users_db = << User(1, Ann, AnnEmail) >>

(***************************************************************************)
(* C3: from the seed state, the k-th id returned by create is one greater  *)
(* than the (k-1)-th, the first being 3, and each new id is greater than   *)
(* every id already in the directory.                                      *)
(***************************************************************************)
C3_IdsIncreaseByOne ==
    /\ \A k \in 1..Len(Created) :
          Created[k].id = IF k = 1 THEN 3 ELSE Created[k - 1].id + 1
    /\ \A r \in Conns :
          pc[r] \in {"create_52", "create_53"} =>
             \A i \in 1..Len(users_db) : users_db[i].id < new_id[r]

C3_Witness ==
    /\ Len(Created) = 3
    /\ Created[3].id = 5

(***************************************************************************)
(* C4: get(id) returns the record with that id if and only if the id is a  *)
(* seed id or was returned by an earlier create; otherwise it answers 404  *)
(* "User not found"; the directory is unchanged in both cases.             *)
(***************************************************************************)
C4_KnownIds(k) ==
    {1, 2} \cup { CreatedBefore(k - 1)[i].id : i \in 1..Len(CreatedBefore(k - 1)) }

C4_GetAnswers ==
    \A k \in 1..Len(log) :
        log[k].req.op = "get_user" =>
            IF log[k].req.user_id \in C4_KnownIds(k)
            THEN /\ log[k].resp.status = 200
                 /\ log[k].resp.body.id = log[k].req.user_id
            ELSE /\ log[k].resp.status = 404
                 /\ log[k].resp.body = [detail |-> "User not found"]

C4_GetFrame ==
    \A r \in Conns : Answers(r, "get_user") => users_db' = users_db

C4_Get == []C4_GetAnswers /\ [][C4_GetFrame]_vars

C4_Witness ==
    /\ Len(log) = 4
    /\ log[1].req = Request("get_user", 3, NoBody) /\ log[1].resp.status = 404
    /\ IsCreated(log[2])
    /\ log[3].req = Request("get_user", 3, NoBody) /\ log[3].resp.status = 200
    /\ log[4].req = Request("get_user", 99, NoBody) /\ log[4].resp.status = 404

(***************************************************************************)
(* C5: list() returns the two seed records followed by every record        *)
(* returned by create so far, in the order the creates completed; and the  *)
(* list only grows by suffix extension, so a record keeps its position and *)
(* its field values in every later state.                                  *)
(***************************************************************************)
C5_ListAnswers ==
    \A k \in 1..Len(log) :
        log[k].req.op = "get_users" =>
            /\ log[k].resp.status = 200
            /\ log[k].resp.body = [list |-> SeedUsers \o CreatedBefore(k - 1)]

C5_OnlyGrows == IsPrefix(users_db, users_db')

C5_List == []C5_ListAnswers /\ [][C5_OnlyGrows]_vars

C5_Witness ==
    /\ Len(log) = 4
    /\ IsCreated(log[1])
    /\ log[2].req.op = "get_users" /\ Len(log[2].resp.body.list) = 3
    /\ IsCreated(log[3])
    /\ log[4].req.op = "get_users" /\ Len(log[4].resp.body.list) = 4
    /\ log[4].resp.body.list[3] = log[1].resp.body
    /\ log[4].resp.body.list[4] = log[3].resp.body

(***************************************************************************)
(* C6: create is the only operation that changes the directory: root, list *)
(* and get (found or not) leave users_db unchanged, and each successful    *)
(* create lengthens it by exactly one and leaves every earlier record and  *)
(* its position unchanged.                                                 *)
(***************************************************************************)
C6_OnlyCreateWrites ==
    /\ \A r \in Conns :
          Answers(r, "root") \/ Answers(r, "get_users") \/ Answers(r, "get_user")
             => users_db' = users_db
    /\ users_db' # users_db =>
          \E r \in Conns :
             /\ req[r].op = "create_user"
             /\ pc[r] = "create_53" /\ pc'[r] = "create_54"
             /\ Len(users_db') = Len(users_db) + 1
             /\ IsPrefix(users_db, users_db')

\* one record per successful create, counting the one appended and not yet returned
C6_OnePerCreate ==
    Len(users_db) =
        Len(SeedUsers) + Len(Created) + Cardinality({r \in Conns : pc[r] = "create_54"})

C6_Frame == []C6_OnePerCreate /\ [][C6_OnlyCreateWrites]_vars

C6_Witness ==
    /\ Len(log) = 4
    /\ \E k \in 1..4 : log[k].req.op = "root"
    /\ \E k \in 1..4 : log[k].req.op = "get_users"
    /\ \E k \in 1..4 : log[k].req.op = "get_user"
    /\ \E k \in 1..4 : IsCreated(log[k])
    /\ Len(users_db) = 3

(***************************************************************************)
(* C7 (as stated): two create requests served concurrently race on the     *)
(* max-id computation: while one create is between its max-id computation  *)
(* and its append, the other can run its own max-id computation.           *)
(***************************************************************************)
C7_RaceOnMaxId ==
    \A r1, r2 \in Conns :
        ( /\ r1 # r2
          /\ pc[r1] \in {"create_52", "create_53"}
          /\ pc[r2] = "pending"
          /\ req[r2].op = "create_user"
          /\ UserCreate(req[r2].body) )
        => ENABLED Create_51(r2)

(***************************************************************************)
(* C7 (amended): create takes no lock, but the handler is a coroutine      *)
(* without an await, so of two create requests in flight together only one *)
(* is inside the handler at a time: a new_id that has been computed and    *)
(* not yet appended is still absent from the directory, and no two records *)
(* of the directory have the same id.                                      *)
(***************************************************************************)
C7_CreatesSerialised ==
    /\ \A r1, r2 \in Conns : InHandler(r1) /\ InHandler(r2) => r1 = r2
    /\ \A r \in Conns :
          pc[r] \in {"create_52", "create_53"} =>
             \A i \in 1..Len(users_db) : users_db[i].id # new_id[r]
    /\ \A i, j \in 1..Len(users_db) :
          users_db[i].id = users_db[j].id => i = j

C7_Witness ==
    /\ pc[1] = "create_53"
    /\ pc[2] = "pending"
    /\ req[2].op = "create_user"
    /\ UserCreate(req[2].body)
    /\ Len(Created) >= 1

(***************************************************************************)
(* C8: a create request whose body lacks name or email, or has one that is *)
(* not text, is answered 422 before the create operation runs: no id is    *)
(* computed, no record is appended, the directory is unchanged.            *)
(***************************************************************************)
C8_Malformed(body) ==
    \E f \in {body.name, body.email} : f.type \in {"absent", "null", "array"}

C8_Rejected ==
    /\ \A k \in 1..Len(log) :
          log[k].req.op = "create_user" /\ C8_Malformed(log[k].req.body)
             => log[k].resp.status = 422
    /\ \A r \in Conns : InHandler(r) => ~C8_Malformed(req[r].body)

C8_RejectFrame ==
    \A r \in Conns :
        Answers(r, "create_user") /\ C8_Malformed(req[r].body) =>
            /\ users_db' = users_db
            /\ new_id' = new_id
            /\ new_user' = new_user
            /\ IsPrefix(log, log') /\ Len(log') = Len(log) + 1
            /\ log'[Len(log')].req = req[r]
            /\ log'[Len(log')].resp.status = 422

C8_Malformed422 == []C8_Rejected /\ [][C8_RejectFrame]_vars

C8_Witness ==
    /\ Len(log) = 4
    /\ \A b \in MalformedBodies :
          \E k \in 1..4 : log[k].req.body = b /\ log[k].resp.status = 422
    /\ users_db = SeedUsers

(***************************************************************************)
(* C9: calculate_user_score returns len(name) * 10, plus 5 if the email    *)
(* contains "@", plus 20 if the user is active, as a float; it leaves the  *)
(* directory alone; for (1, "John Doe", "john@example.com", active) the    *)
(* result is 105.                                                          *)
(***************************************************************************)
C9_Value(u) ==
    (10 * Len(u.name))
    + (IF \E i \in DOMAIN u.email : u.email[i] = "@" THEN 5 ELSE 0)
    + (IF u.is_active THEN 20 ELSE 0)

C9_ScoreValue ==
    score # NoScore =>
        /\ score.result = [type |-> "float", value |-> C9_Value(score.user)]
        /\ score.user = User(1, JohnDoe, JohnEmail) => score.result.value = 105

C9_Score == []C9_ScoreValue /\ [][users_db' = users_db]_vars

C9_Witness ==
    /\ score.user = User(1, JohnDoe, JohnEmail)
    /\ score.result.value = 105
    /\ users_db = SeedUsers

(***************************************************************************)
(* C10: from the seed state the exchanges get(1), get(99),                 *)
(* create("Ann", "ann@example.com"), list() are answered, in this order,   *)
(* by John Doe's record with 200; 404; a record with id 3 and is_active    *)
(* with 200; a list of exactly 3 records with ids 1, 2, 3.                 *)
(***************************************************************************)
C10_Requests ==
    << Request("get_user", 1, NoBody),
       Request("get_user", 99, NoBody),
       Request("create_user", 0, [name |-> JStr(Ann), email |-> JStr(AnnEmail)]),
       Request("get_users", 0, NoBody) >>

C10_Follows(k) ==
    Len(log) >= k /\ \A i \in 1..k : log[i].req = C10_Requests[i]

C10_Scenario ==
    /\ C10_Follows(1) =>
          /\ log[1].resp.status = 200
          /\ log[1].resp.body =
                [id |-> 1, name |-> JohnDoe, email |-> JohnEmail, is_active |-> TRUE]
    /\ C10_Follows(2) => log[2].resp.status = 404
    /\ C10_Follows(3) =>
          /\ log[3].resp.status = 200
          /\ log[3].resp.body.id = 3
          /\ log[3].resp.body.is_active = TRUE
    /\ C10_Follows(4) =>
          /\ log[4].resp.status = 200
          /\ Len(log[4].resp.body.list) = 3
          /\ [i \in 1..3 |-> log[4].resp.body.list[i].id] = <<1, 2, 3>>

C10_Witness == C10_Follows(4)

====
